---------------------------- MODULE Spec2Model ----------------------------
(***************************************************************************)
(* The Orders page (src/unnamed/part_000): the debounced search box, the   *)
(* fetch effect and fetchOrders, the hybrid of server-side pagination      *)
(* (not searching) and client-side filter/paginate over a cached full      *)
(* list (searching).                                                       *)
(*                                                                         *)
(* Strings are sequences of one-character strings, so that trim,           *)
(* toLowerCase, includes and the template literal of the scope key are     *)
(* computed, not assumed.  avgOrderValue is an exact fraction.             *)
(*                                                                         *)
(* React is taken to batch the state updates of one callback into one      *)
(* render (React 18), and to run the effects of that render before the     *)
(* next event is handled: a handler and the effects it triggers are one    *)
(* action.  fetchOrders runs synchronously up to its await; the rest of    *)
(* it runs when the response arrives (fetchOrdersResume).                  *)
(*                                                                         *)
(* The Credits page (src/src/pages/Credits.tsx) is modelled after the      *)
(* Orders page, with variables of its own.  The router mounts one page at  *)
(* a time: each specification runs one page and keeps the state of the     *)
(* other at its unmounted value.                                           *)
(***************************************************************************)
EXTENDS Integers, Sequences, FiniteSets, TLC

VARIABLES
    orders,               \* useState<Sale[]>([])
    loading,              \* useState(true)
    currentPage,          \* useState(1)
    totalPages,           \* useState(1)
    searchTerm,           \* useState(""): the raw text of the search box
    debouncedSearchTerm,  \* useState(""): the settled text
    filterStatus,         \* useState("all")
    filterCustomer,       \* useState("")
    filterPaymentMethod,  \* useState("all")
    dateFrom,             \* useState("")
    dateTo,               \* useState("")
    summary,              \* useState({totalSales: 0, totalOrders: 0, avgOrderValue: 0})
    allSalesCacheRef,     \* useRef<Sale[]>([]).current
    cacheKeyRef,          \* useRef<string>("").current
    timers,               \* pending setTimeout callbacks: [term, left (ms)]
    quiet,                \* ms since the raw search text last changed (capped)
    inflight,             \* fetchOrders calls suspended at their await (with what triggered each)
    nextId,               \* number of the next fetchOrders call (trigger order)
    requests,             \* number of salesApi.getAll requests issued
    cacheFrom,            \* history: the request whose response the cache holds
    shownBy,              \* history: the fetchOrders call that last wrote orders/totalPages/summary
    cachedBy,             \* history: the fetchOrders call that last wrote one of the two refs
    leftSearch,           \* history: a non-search call has succeeded with no call left in
                          \* flight, and no search-mode call has started since
    lastSearch,           \* history: the search-mode call triggered last, and whether its
                          \* request was answered with success:false
    ev                    \* history: the last step taken

vars == <<orders, loading, currentPage, totalPages, searchTerm, debouncedSearchTerm,
          filterStatus, filterCustomer, filterPaymentMethod, dateFrom, dateTo,
          summary, allSalesCacheRef, cacheKeyRef, timers, quiet, inflight, nextId,
          requests, cacheFrom, shownBy, cachedBy, leftSearch,
          lastSearch, ev>>

\* the Credits page (its `loading' state is creditsLoading here)
VARIABLES
    customers,                \* useState<any[]>([])
    customersWithCredits,     \* useState<any[]>([])
    creditsLoading,           \* useState(true)
    selectedCustomer,         \* useState<any>(null)
    isPaymentModalOpen,       \* useState(false)
    isReceivableModalOpen,    \* useState(false)
    isTransactionHistoryOpen, \* useState(false)
    transactions,             \* useState<any[]>([])
    isAddCustomerOpen,        \* useState(false)
    isSyncing,                \* useState(false)
    fetching,                 \* fetchAllCustomers calls suspended at their await
    awaiting,                 \* handlers suspended at the await of a service call
    syncAwaits,               \* the fetchAllCustomers call handleSyncBalances awaits (0: none)
    nextCall,                 \* number of the next service call
    cev                       \* history: the last step taken on the Credits page

creditsVars == <<customers, customersWithCredits, creditsLoading, selectedCustomer,
                 isPaymentModalOpen, isReceivableModalOpen, isTransactionHistoryOpen,
                 transactions, isAddCustomerOpen, isSyncing, fetching, awaiting,
                 syncAwaits, nextCall, cev>>

\* null
Null == <<>>

\* no step taken yet
NoStep == [kind |-> "none", id |-> 0, out |-> "none", toasts |-> 0, fetch |-> 0,
           input |-> <<>>, args |-> <<>>]

\* the Credits page is not mounted: its state does not exist and nothing runs
CreditsUnmounted ==
    /\ customers = <<>>
    /\ customersWithCredits = <<>>
    /\ creditsLoading = TRUE
    /\ selectedCustomer = Null
    /\ isPaymentModalOpen = FALSE
    /\ isReceivableModalOpen = FALSE
    /\ isTransactionHistoryOpen = FALSE
    /\ transactions = <<>>
    /\ isAddCustomerOpen = FALSE
    /\ isSyncing = FALSE
    /\ fetching = {}
    /\ awaiting = {}
    /\ syncAwaits = 0
    /\ nextCall = 1
    /\ cev = NoStep

-----------------------------------------------------------------------------
(* Bounds of the model *)

\* fetchOrders calls in one behaviour (the mount's call included)
MaxCycles == 3
\* pages the pagination control can ask for
MaxPage == 2
\* service calls of the Credits page in one behaviour (the mount's call included)
MaxCalls == 3

(* Program constants *)
ITEMS_PER_PAGE == 20
DEBOUNCE_MS == 500
FULL_SCOPE_LIMIT == 10000

-----------------------------------------------------------------------------
(* Strings *)

Min(a, b) == IF a < b THEN a ELSE b
Max(a, b) == IF a > b THEN a ELSE b

IsSpace(c) == c = " "

RECURSIVE TrimStart(_)
TrimStart(s) == IF s # <<>> /\ IsSpace(Head(s)) THEN TrimStart(Tail(s)) ELSE s

RECURSIVE TrimEnd(_)
TrimEnd(s) ==
    IF s # <<>> /\ IsSpace(s[Len(s)]) THEN TrimEnd(SubSeq(s, 1, Len(s) - 1)) ELSE s

\* String.prototype.trim
Trim(s) == TrimEnd(TrimStart(s))

LowerChar(c) == IF c = "A" THEN "a" ELSE IF c = "B" THEN "b" ELSE c

\* String.prototype.toLowerCase
ToLowerCase(s) == [i \in 1..Len(s) |-> LowerChar(s[i])]

\* String.prototype.includes
Includes(s, sub) ==
    \E i \in 0..(Len(s) - Len(sub)) : SubSeq(s, i + 1, i + Len(sub)) = sub

IsDigit(c) == c \in {"0", "1", "2", "7"}
DigitVal(c) == IF c = "0" THEN 0 ELSE IF c = "1" THEN 1 ELSE IF c = "2" THEN 2 ELSE 7

RECURSIVE ParseDigits(_, _)
ParseDigits(s, acc) ==
    IF s # <<>> /\ IsDigit(Head(s))
    THEN ParseDigits(Tail(s), acc * 10 + DigitVal(Head(s)))
    ELSE acc

\* parseInt: the leading digits after leading white space, NaN when there are none
ParseInt(s) ==
    LET t == TrimStart(s)
    IN IF t # <<>> /\ IsDigit(Head(t))
       THEN [isNaN |-> FALSE, val |-> ParseDigits(t, 0)]
       ELSE [isNaN |-> TRUE, val |-> 0]

RECURSIVE Gcd(_, _)
Gcd(a, b) == IF b = 0 THEN a ELSE Gcd(b, a % b)

\* the number n / d (d > 0, n >= 0), exactly
Quot(n, d) == LET g == Gcd(n, d) IN [num |-> n \div g, den |-> d \div g]
Zero == Quot(0, 1)

\* NaN, among numbers that are never negative
NaN == -1

\* a + b, where either may be NaN (or undefined, which + turns into NaN)
Plus(a, b) == IF a = NaN \/ b = NaN THEN NaN ELSE a + b

\* n / d (d > 0), where n may be NaN
Div(n, d) == IF n = NaN THEN [num |-> NaN, den |-> 1] ELSE Quot(n, d)

-----------------------------------------------------------------------------
(* The values the user can enter and the server can return *)

All == <<"a", "l", "l">>

StatusValues == {All, <<"p", "a", "i", "d">>}
PaymentValues == {All, <<"c", "a", "s", "h">>}
DateFromValues == {<<>>, <<"d", "1">>}
DateToValues == {<<>>, <<"d", "2">>}
CustomerValues == {<<>>, <<"7">>}

\* raw texts of the search box: trimmed lengths 0, 1 and 2, with case and spaces
SearchTexts ==
    {<<>>, <<" ", "b", " ">>, <<"A", "b", " ">>, <<"b", "x">>}

\* interface Sale, the fields fetchOrders reads (customerName may be null)
SaleA == [id |-> 1, orderNumber |-> <<"x", "A", "b">>, customerName |-> <<"x">>,
          createdBy |-> <<"u">>, paymentMethod |-> <<"c">>, total |-> 10]
SaleB == [id |-> 2, orderNumber |-> <<"x">>, customerName |-> <<"a", "B", "x">>,
          createdBy |-> <<"u">>, paymentMethod |-> <<"c">>, total |-> 20]
SaleC == [id |-> 3, orderNumber |-> <<"a">>, customerName |-> <<"b">>,
          createdBy |-> <<"u">>, paymentMethod |-> <<"c">>, total |-> 30]
SaleD == [id |-> 4, orderNumber |-> <<"x">>, createdBy |-> <<"a", "b">>,
          paymentMethod |-> <<"c">>, total |-> 40]
SaleE == [id |-> 5, orderNumber |-> <<"b", "x">>, customerName |-> <<"x">>,
          createdBy |-> <<"u">>, paymentMethod |-> <<"x", "a", "b">>, total |-> 51]

ShortList == <<SaleA, SaleB, SaleC, SaleD, SaleE>>

\* records the service returned without some of their fields
SaleF == [id |-> 6, orderNumber |-> <<"b", "x">>]
SaleG == [id |-> 7, customerName |-> <<"b", "x">>, total |-> 5]

MalformedList == <<SaleA, SaleF, SaleG, SaleE>>

\* 25 sales, 22 of them matching "ab": two pages of matches
LongList ==
    [i \in 1..25 |->
        [(CASE i % 8 = 3 -> SaleC [] i % 2 = 0 -> SaleE [] OTHER -> SaleA) EXCEPT !.id = 100 + i]]

\* response.data of a successful getAll({..., limit: ITEMS_PER_PAGE, page})
\* (all three fields, or none of them with a totalPages of 0)
PageData ==
    { [sales |-> <<SaleA, SaleC>>, pagination |-> [totalPages |-> 3],
       summary |-> [totalSales |-> 100, totalOrders |-> 45, avgOrderValue |-> Quot(100, 45)]],
      [pagination |-> [totalPages |-> 0]] }

\* response.data of a successful getAll({..., limit: 10000, page: 1})
FullData ==
    { [sales |-> ShortList], [sales |-> LongList], [sales |-> <<>>],
      [pagination |-> [totalPages |-> 1]] }

\* how a request ends: success with data, {success: false}, or a thrown error
Outcomes(isSearching) ==
    { [kind |-> "ok", data |-> d] : d \in IF isSearching THEN FullData ELSE PageData }
    \cup { [kind |-> "fail", data |-> <<>>], [kind |-> "throw", data |-> <<>>] }

-----------------------------------------------------------------------------
(* fetchOrders *)

IsSearching(debounced) == Len(Trim(debounced)) >= 2

\* `${filterStatus}|${filterPaymentMethod}|${dateFrom}|${dateTo}|${filterCustomer || ''}`
CurrentKey(fs, fpm, df, dt, fc) ==
    fs \o <<"|">> \o fpm \o <<"|">> \o df \o <<"|">> \o dt \o <<"|">> \o fc

\* Variant: an empty cached list counts as a valid cache
ShouldFetchOnKeyChangeOnly(isSearching, cacheKey, currentKey, cache) ==
    ~isSearching \/ cacheKey # currentKey

\* Variant: every call goes to the network
ShouldAlwaysFetch(isSearching, cacheKey, currentKey, cache) == TRUE

ShouldFetchFromNetwork(isSearching, cacheKey, currentKey, cache) ==
    ~isSearching \/ (cacheKey # currentKey \/ Len(cache) = 0)

\* baseParams: a field is present only when its filter is set
BaseParams(fs, fpm, df, dt, fc) ==
    LET present == {f \in {"status", "customerId", "dateFrom", "dateTo", "paymentMethod"} :
                       CASE f = "status" -> fs # All
                         [] f = "customerId" -> fc # <<>>
                         [] f = "dateFrom" -> df # <<>>
                         [] f = "dateTo" -> dt # <<>>
                         [] OTHER -> fpm # All}
    IN [f \in present |->
           CASE f = "status" -> fs
             [] f = "customerId" -> ParseInt(fc)
             [] f = "dateFrom" -> df
             [] f = "dateTo" -> dt
             [] OTHER -> fpm]

\* sale.field?.toLowerCase().includes(searchLower): a missing field does not match
FieldIncludes(sale, f, searchLower) ==
    f \in DOMAIN sale /\ Includes(ToLowerCase(sale[f]), searchLower)

\* Variant: only the order number and the customer name are searched
SaleMatchesOrderOrCustomer(sale, searchLower) ==
    \/ FieldIncludes(sale, "orderNumber", searchLower)
    \/ FieldIncludes(sale, "customerName", searchLower)

SaleMatches(sale, searchLower) ==
    \/ FieldIncludes(sale, "orderNumber", searchLower)
    \/ FieldIncludes(sale, "customerName", searchLower)
    \/ FieldIncludes(sale, "createdBy", searchLower)
    \/ FieldIncludes(sale, "paymentMethod", searchLower)

FilteredSales(cache, term) ==
    LET searchLower == ToLowerCase(term)
    IN SelectSeq(cache, LAMBDA sale : SaleMatches(sale, searchLower))

\* Array.prototype.slice(startIndex, endIndex)
Slice(s, startIndex, endIndex) ==
    SubSeq(s, Min(startIndex, Len(s)) + 1, Min(endIndex, Len(s)))

\* Variant: the filtered list is shown whole, not sliced
WholeFilteredList(filteredSales, page) == filteredSales

PaginatedSales(filteredSales, page) ==
    LET startIndex == (page - 1) * ITEMS_PER_PAGE
        endIndex == startIndex + ITEMS_PER_PAGE
    IN Slice(filteredSales, startIndex, endIndex)

\* Variant: the page count is rounded down
SearchTotalPagesFloor(filteredSales) ==
    Max(1, Len(filteredSales) \div ITEMS_PER_PAGE)

\* Math.max(1, Math.ceil(filteredSales.length / ITEMS_PER_PAGE))
SearchTotalPages(filteredSales) ==
    Max(1, (Len(filteredSales) + ITEMS_PER_PAGE - 1) \div ITEMS_PER_PAGE)

\* s.total: undefined when the record has none, and sum + undefined is NaN
TotalOf(sale) == IF "total" \in DOMAIN sale THEN sale.total ELSE NaN

RECURSIVE SumTotal(_)
\* filteredSales.reduce((sum, s) => sum + s.total, 0)
SumTotal(s) == IF s = <<>> THEN 0 ELSE Plus(TotalOf(s[1]), SumTotal(Tail(s)))

\* Variant: the summary is reduced over the first page only
SearchSummaryOfVisiblePage(filteredSales) ==
    LET visible == SubSeq(filteredSales, 1, Min(ITEMS_PER_PAGE, Len(filteredSales)))
        totalSales == SumTotal(visible)
    IN [totalSales |-> totalSales,
        totalOrders |-> Len(visible),
        avgOrderValue |-> IF Len(visible) # 0 THEN Div(totalSales, Len(visible)) ELSE Zero]

SearchSummary(filteredSales) ==
    LET totalSales == SumTotal(filteredSales)
    IN [totalSales |-> totalSales,
        totalOrders |-> Len(filteredSales),
        avgOrderValue |-> IF Len(filteredSales) # 0
                          THEN Div(totalSales, Len(filteredSales)) ELSE Zero]

ZeroSummary == [totalSales |-> 0, totalOrders |-> 0, avgOrderValue |-> Zero]

\* response.data.x || fallback
OrElse(data, f, fallback) == IF f \in DOMAIN data THEN data[f] ELSE fallback

\* Variant: the server's totalPages is taken as it is, 0 included
ServerTotalPagesUnguarded(data) ==
    IF "pagination" \in DOMAIN data THEN data.pagination.totalPages ELSE 1

\* response.data.pagination?.totalPages || 1
ServerTotalPages(data) ==
    IF "pagination" \in DOMAIN data /\ data.pagination.totalPages # 0
    THEN data.pagination.totalPages ELSE 1

\* the last step: its kind, the fetchOrders call it started or resumed (0: none),
\* that call's mode, term and page, whether the cache served it, how its request
\* ended and the response.data it got, the toast() calls of the step, and
\* currentPage before the step
NoCycle == [kind |-> "none", id |-> 0, search |-> FALSE, term |-> <<>>, page |-> 0,
            hit |-> FALSE, out |-> "none", data |-> <<>>, toasts |-> 0, prevPage |-> 0]

NoRequest == [id |-> 0, key |-> <<>>, params |-> <<>>, limit |-> 0, page |-> 0]

\* Variant: the request always asks for page 1
RequestFirstPage(id, isSearching, currentKey, baseParams, page) ==
    [id |-> id, key |-> currentKey, params |-> baseParams,
     limit |-> IF isSearching THEN FULL_SCOPE_LIMIT ELSE ITEMS_PER_PAGE,
     page |-> 1]

\* the request a call issues when it goes to the network
Request(id, isSearching, currentKey, baseParams, page) ==
    [id |-> id, key |-> currentKey, params |-> baseParams,
     limit |-> IF isSearching THEN FULL_SCOPE_LIMIT ELSE ITEMS_PER_PAGE,
     page |-> IF isSearching THEN 1 ELSE page]

\* Variant: every call shows the loading state, a cache hit included
LoadingOnEveryStart(shouldFetchFromNetwork, was) == TRUE

\* Variant: there is no finally block
LoadingLeftOnEnd(shouldFetchFromNetwork, was) == was

\* if (shouldFetchFromNetwork) setLoading(true)
LoadingOnStart(shouldFetchFromNetwork, was) == IF shouldFetchFromNetwork THEN TRUE ELSE was

\* finally: if (shouldFetchFromNetwork) setLoading(false)
LoadingOnEnd(shouldFetchFromNetwork, was) == IF shouldFetchFromNetwork THEN FALSE ELSE was

\* Variant: the page and totalPages are written, the summary is left
ShowFromCacheKeepingSummary(cache, term, page, id) ==
    LET filteredSales == FilteredSales(cache, term)
    IN /\ orders' = PaginatedSales(filteredSales, page)
       /\ totalPages' = SearchTotalPages(filteredSales)
       /\ summary' = summary
       /\ shownBy' = id

\* lines 132-148: filter, paginate and aggregate from the cache
ShowFromCache(cache, term, page, id) ==
    LET filteredSales == FilteredSales(cache, term)
    IN /\ orders' = PaginatedSales(filteredSales, page)
       /\ totalPages' = SearchTotalPages(filteredSales)
       /\ summary' = SearchSummary(filteredSales)
       /\ shownBy' = id

\* fetchOrders up to its await (or to its end when the cache serves the page),
\* called with the state of the render whose effect or callback calls it
fetchOrders(fs, fpm, df, dt, fc, page, debounced, kind) ==
    LET term == Trim(debounced)
        isSearching == Len(term) >= 2
        currentKey == CurrentKey(fs, fpm, df, dt, fc)
        shouldFetchFromNetwork ==
            ShouldFetchFromNetwork(isSearching, cacheKeyRef, currentKey, allSalesCacheRef)
        baseParams == BaseParams(fs, fpm, df, dt, fc)
    IN /\ nextId <= MaxCycles
       /\ nextId' = nextId + 1
       /\ UNCHANGED <<allSalesCacheRef, cacheKeyRef, cacheFrom, cachedBy>>
       /\ UNCHANGED creditsVars
       /\ leftSearch' = (leftSearch /\ ~isSearching)
       /\ lastSearch' = IF isSearching THEN [id |-> nextId, failed |-> FALSE] ELSE lastSearch
       /\ loading' = LoadingOnStart(shouldFetchFromNetwork, loading)
       /\ IF ~isSearching \/ shouldFetchFromNetwork
          THEN \* await salesApi.getAll(...)
               /\ requests' = requests + 1
               /\ inflight' = inflight \cup
                      {[id |-> nextId, isSearching |-> isSearching, term |-> term,
                        currentKey |-> currentKey, page |-> page,
                        shouldFetchFromNetwork |-> shouldFetchFromNetwork,
                        trigger |-> kind,
                        request |-> Request(nextId, isSearching, currentKey, baseParams, page)]}
               /\ ev' = [kind |-> kind, id |-> nextId, search |-> isSearching,
                         term |-> term, page |-> page, hit |-> FALSE, out |-> "none",
                         data |-> <<>>, toasts |-> 0, prevPage |-> currentPage]
               /\ UNCHANGED <<orders, totalPages, summary, shownBy>>
          ELSE /\ ShowFromCache(allSalesCacheRef, term, page, nextId)
               /\ ev' = [kind |-> kind, id |-> nextId, search |-> isSearching,
                         term |-> term, page |-> page, hit |-> TRUE, out |-> "none",
                         data |-> <<>>, toasts |-> 0, prevPage |-> currentPage]
               /\ UNCHANGED <<requests, inflight>>

\* Variant: the records of a page response are kept as the search cache
KeepPageAsSearchCache(sales) == sales

\* Variant: the cached list outlives a non-search call
KeepSearchCache(sales) == allSalesCacheRef

\* allSalesCacheRef.current = [] after the page response was shown (sales)
ResetSearchCache(sales) == <<>>

\* a step that calls fetchOrders not at all
NoFetch(kind) ==
    /\ ev' = [NoCycle EXCEPT !.kind = kind]
    /\ UNCHANGED <<orders, loading, totalPages, summary, allSalesCacheRef, cacheKeyRef,
                   inflight, nextId, requests, cacheFrom, shownBy, cachedBy, leftSearch,
                   lastSearch>>
    /\ UNCHANGED creditsVars

\* Variant: the catch block only logs
NoToast(outKind) == 0

\* toast() calls of the call's end: one, in the catch block
Toasts(outKind) == IF outKind = "throw" THEN 1 ELSE 0

\* Variant: the full list is cached without recording its key
KeyLeftOnFill(currentKey, was) == was

\* cacheKeyRef.current = currentKey, next to the list of the full-scope response
KeyOnFill(currentKey, was) == currentKey

\* Variant: a request that failed is awaited again
AwaitAgainOnFailure(calls, c, out) == IF out.kind = "ok" THEN calls \ {c} ELSE calls

\* the calls suspended at their await once the request of c has ended with
\* out: each call awaits salesApi.getAll once, whatever the outcome
AwaitOver(calls, c, out) == calls \ {c}

\* fetchOrders from its await to its end, for the call c and the outcome out
fetchOrdersResume(c, out) ==
    /\ c \in inflight
    /\ out \in Outcomes(c.isSearching)
    /\ inflight' = AwaitOver(inflight, c, out)
    /\ UNCHANGED creditsVars
    /\ ev' = [kind |-> "resume", id |-> c.id, search |-> c.isSearching,
              term |-> c.term, page |-> c.page, hit |-> FALSE, out |-> out.kind,
              data |-> out.data, toasts |-> Toasts(out.kind), prevPage |-> currentPage]
    /\ loading' = LoadingOnEnd(c.shouldFetchFromNetwork, loading)
    /\ leftSearch' = IF ~c.isSearching /\ out.kind = "ok" /\ inflight' = {}
                     THEN TRUE
                     ELSE leftSearch
    /\ lastSearch' = IF c.isSearching /\ out.kind = "fail" /\ c.id = lastSearch.id
                     THEN [lastSearch EXCEPT !.failed = TRUE]
                     ELSE lastSearch
    /\ UNCHANGED <<currentPage, searchTerm, debouncedSearchTerm, filterStatus,
                   filterCustomer, filterPaymentMethod, dateFrom, dateTo, timers, quiet,
                   nextId, requests>>
    /\ IF out.kind = "throw"
       THEN UNCHANGED <<orders, totalPages, summary, allSalesCacheRef, cacheKeyRef,
                        cacheFrom, shownBy, cachedBy>>
       ELSE IF ~c.isSearching
       THEN IF out.kind = "ok"
            THEN /\ orders' = OrElse(out.data, "sales", <<>>)
                 /\ totalPages' = ServerTotalPages(out.data)
                 /\ summary' = OrElse(out.data, "summary", ZeroSummary)
                 /\ allSalesCacheRef' = ResetSearchCache(orders')
                 /\ cacheKeyRef' = c.currentKey
                 /\ cacheFrom' = NoRequest
                 /\ cachedBy' = c.id
                 /\ shownBy' = c.id
            ELSE UNCHANGED <<orders, totalPages, summary, allSalesCacheRef, cacheKeyRef,
                             cacheFrom, shownBy, cachedBy>>
       ELSE /\ IF out.kind = "ok"
               THEN /\ allSalesCacheRef' = OrElse(out.data, "sales", <<>>)
                    /\ cacheKeyRef' = KeyOnFill(c.currentKey, cacheKeyRef)
                    /\ cacheFrom' = c.request
               ELSE /\ allSalesCacheRef' = <<>>
                    /\ cacheFrom' = NoRequest
                    /\ UNCHANGED cacheKeyRef
            /\ cachedBy' = c.id
            /\ ShowFromCache(allSalesCacheRef', c.term, c.page, c.id)

-----------------------------------------------------------------------------
(* The debounce effect *)

\* Variant: no minimum length
SettleGateAnyLength(len) == TRUE

\* if (len === 0 || len >= 2)
SettleGate(len) == len = 0 \/ len >= 2

\* Variant: the effect has no cleanup
LeaveTimeout(ts) == ts

\* the effect's cleanup: clearTimeout(timer)
ClearTimeout(ts) == {}

\* setTimeout(..., 500) by the effect of the render with search text term
SetTimeout(term) == [term |-> term, left |-> DEBOUNCE_MS]

\* Variant: the callback does not call setCurrentPage
PageKeptOnSettle(page) == page

\* the page the timer's callback sets when it settles
PageOnSettle(page) == 1

\* Variant: the fetch effect depends on the raw text, there is no debounce
setSearchTermUndebounced(v) ==
    /\ ~loading
    /\ v \in SearchTexts \ {searchTerm}
    /\ searchTerm' = v
    /\ debouncedSearchTerm' = v
    /\ UNCHANGED <<currentPage, filterStatus, filterCustomer, filterPaymentMethod,
                   dateFrom, dateTo, timers, quiet>>
    /\ fetchOrders(filterStatus, filterPaymentMethod, dateFrom, dateTo, filterCustomer,
                   currentPage, v, "type")

\* onChange of the search box: setSearchTerm(v); the debounce effect re-runs
setSearchTerm(v) ==
    /\ ~loading
    /\ v \in SearchTexts \ {searchTerm}
    /\ searchTerm' = v
    /\ timers' = ClearTimeout(timers) \cup {SetTimeout(v)}
    /\ quiet' = 0
    /\ UNCHANGED <<currentPage, debouncedSearchTerm, filterStatus, filterCustomer,
                   filterPaymentMethod, dateFrom, dateTo>>
    /\ NoFetch("type")

TickSteps == {250}

\* time passes
Tick(ms) ==
    /\ ms \in TickSteps
    /\ quiet < DEBOUNCE_MS \/ \E t \in timers : t.left > 0
    /\ quiet' = Min(DEBOUNCE_MS, quiet + ms)
    /\ timers' = {[t EXCEPT !.left = Max(0, t.left - ms)] : t \in timers}
    /\ UNCHANGED <<currentPage, searchTerm, debouncedSearchTerm, filterStatus,
                   filterCustomer, filterPaymentMethod, dateFrom, dateTo>>
    /\ NoFetch("tick")

\* Variant: the page is reset only when the settled text changes
PageAfterTimerOnChange(settles, term, debounced, page) ==
    IF settles /\ term # debounced THEN PageOnSettle(page) ELSE page

\* setCurrentPage(1) next to setDebouncedSearchTerm, inside the length gate
PageAfterTimer(settles, term, debounced, page) ==
    IF settles THEN PageOnSettle(page) ELSE page

\* the timer's callback; the fetch effect runs when the settle changed a dependency
debounceTimer(t) ==
    /\ t \in timers
    /\ t.left = 0
    /\ timers' = timers \ {t}
    /\ LET len == Len(Trim(t.term))
           settles == SettleGate(len)
           debounced == IF settles THEN t.term ELSE debouncedSearchTerm
           page == PageAfterTimer(settles, t.term, debouncedSearchTerm, currentPage)
       IN /\ debouncedSearchTerm' = debounced
          /\ currentPage' = page
          /\ IF debounced # debouncedSearchTerm \/ page # currentPage
             THEN fetchOrders(filterStatus, filterPaymentMethod, dateFrom, dateTo,
                              filterCustomer, page, debounced, "timer")
             ELSE NoFetch("timer")
    /\ UNCHANGED <<searchTerm, filterStatus, filterCustomer, filterPaymentMethod,
                   dateFrom, dateTo, quiet>>

-----------------------------------------------------------------------------
(* The filters, the pagination control and the refresh; each re-runs the    *)
(* fetch effect.  They exist only while the page is rendered (not loading). *)

setFilterStatus(v) ==
    /\ ~loading
    /\ v \in StatusValues \ {filterStatus}
    /\ filterStatus' = v
    /\ UNCHANGED <<currentPage, searchTerm, debouncedSearchTerm, filterCustomer,
                   filterPaymentMethod, dateFrom, dateTo, timers, quiet>>
    /\ fetchOrders(v, filterPaymentMethod, dateFrom, dateTo, filterCustomer,
                   currentPage, debouncedSearchTerm, "scope")

setFilterPaymentMethod(v) ==
    /\ ~loading
    /\ v \in PaymentValues \ {filterPaymentMethod}
    /\ filterPaymentMethod' = v
    /\ UNCHANGED <<currentPage, searchTerm, debouncedSearchTerm, filterStatus,
                   filterCustomer, dateFrom, dateTo, timers, quiet>>
    /\ fetchOrders(filterStatus, v, dateFrom, dateTo, filterCustomer,
                   currentPage, debouncedSearchTerm, "scope")

setDateFrom(v) ==
    /\ ~loading
    /\ v \in DateFromValues \ {dateFrom}
    /\ dateFrom' = v
    /\ UNCHANGED <<currentPage, searchTerm, debouncedSearchTerm, filterStatus,
                   filterCustomer, filterPaymentMethod, dateTo, timers, quiet>>
    /\ fetchOrders(filterStatus, filterPaymentMethod, v, dateTo, filterCustomer,
                   currentPage, debouncedSearchTerm, "scope")

setDateTo(v) ==
    /\ ~loading
    /\ v \in DateToValues \ {dateTo}
    /\ dateTo' = v
    /\ UNCHANGED <<currentPage, searchTerm, debouncedSearchTerm, filterStatus,
                   filterCustomer, filterPaymentMethod, dateFrom, timers, quiet>>
    /\ fetchOrders(filterStatus, filterPaymentMethod, dateFrom, v, filterCustomer,
                   currentPage, debouncedSearchTerm, "scope")

setFilterCustomer(v) ==
    /\ ~loading
    /\ v \in CustomerValues \ {filterCustomer}
    /\ filterCustomer' = v
    /\ UNCHANGED <<currentPage, searchTerm, debouncedSearchTerm, filterStatus,
                   filterPaymentMethod, dateFrom, dateTo, timers, quiet>>
    /\ fetchOrders(filterStatus, filterPaymentMethod, dateFrom, dateTo, v,
                   currentPage, debouncedSearchTerm, "scope")

\* Variant: currentPage is not a dependency of the fetch effect
handlePageChangeWithoutEffect(page) ==
    /\ ~loading
    /\ page \in (1..MaxPage) \ {currentPage}
    /\ currentPage' = page
    /\ UNCHANGED <<searchTerm, debouncedSearchTerm, filterStatus, filterCustomer,
                   filterPaymentMethod, dateFrom, dateTo, timers, quiet>>
    /\ NoFetch("page")

handlePageChange(page) ==
    /\ ~loading
    /\ page \in (1..MaxPage) \ {currentPage}
    /\ currentPage' = page
    /\ UNCHANGED <<searchTerm, debouncedSearchTerm, filterStatus, filterCustomer,
                   filterPaymentMethod, dateFrom, dateTo, timers, quiet>>
    /\ fetchOrders(filterStatus, filterPaymentMethod, dateFrom, dateTo, filterCustomer,
                   page, debouncedSearchTerm, "page")

\* onOrderUpdated={fetchOrders}: the order details modal asks for a refresh
onOrderUpdated ==
    /\ ~loading
    /\ UNCHANGED <<currentPage, searchTerm, debouncedSearchTerm, filterStatus,
                   filterCustomer, filterPaymentMethod, dateFrom, dateTo, timers, quiet>>
    /\ fetchOrders(filterStatus, filterPaymentMethod, dateFrom, dateTo, filterCustomer,
                   currentPage, debouncedSearchTerm, "refresh")

-----------------------------------------------------------------------------
(* The page after its mount: both effects have run once *)

Init ==
    /\ orders = <<>>
    /\ loading = TRUE
    /\ currentPage = 1
    /\ totalPages = 1
    /\ searchTerm = <<>>
    /\ debouncedSearchTerm = <<>>
    /\ filterStatus = All
    /\ filterCustomer = <<>>
    /\ filterPaymentMethod = All
    /\ dateFrom = <<>>
    /\ dateTo = <<>>
    /\ summary = ZeroSummary
    /\ allSalesCacheRef = <<>>
    /\ cacheKeyRef = <<>>
    /\ timers = {SetTimeout(<<>>)}
    /\ quiet = 0
    /\ inflight = {[id |-> 1, isSearching |-> FALSE, term |-> <<>>,
                    currentKey |-> CurrentKey(All, All, <<>>, <<>>, <<>>), page |-> 1,
                    shouldFetchFromNetwork |-> TRUE, trigger |-> "mount",
                    request |-> Request(1, FALSE, CurrentKey(All, All, <<>>, <<>>, <<>>),
                                        BaseParams(All, All, <<>>, <<>>, <<>>), 1)]}
    /\ nextId = 2
    /\ requests = 1
    /\ cacheFrom = NoRequest
    /\ shownBy = 0
    /\ cachedBy = 0
    /\ leftSearch = FALSE
    /\ lastSearch = [id |-> 0, failed |-> FALSE]
    /\ CreditsUnmounted
    /\ ev = [NoCycle EXCEPT !.kind = "mount", !.id = 1, !.page = 1, !.prevPage = 1]

\* the request of a suspended call ends and the call runs to its end
Respond ==
    \E c \in inflight : \E out \in Outcomes(c.isSearching) : fetchOrdersResume(c, out)

Next ==
    \/ \E v \in SearchTexts : setSearchTerm(v)
    \/ \E ms \in TickSteps : Tick(ms)
    \/ \E t \in timers : debounceTimer(t)
    \/ \E v \in StatusValues : setFilterStatus(v)
    \/ \E v \in PaymentValues : setFilterPaymentMethod(v)
    \/ \E v \in DateFromValues : setDateFrom(v)
    \/ \E v \in DateToValues : setDateTo(v)
    \/ \E v \in CustomerValues : setFilterCustomer(v)
    \/ \E page \in 1..MaxPage : handlePageChange(page)
    \/ onOrderUpdated
    \/ Respond

Spec == Init /\ [][Next]_vars

\* every request that was issued resolves: the promise of salesApi.getAll
\* settles and the event loop runs the call's continuation
LiveSpec == Spec /\ WF_vars(Respond)

-----------------------------------------------------------------------------
(* The scope key and the request filters as functions of the Filter Scope:  *)
(* the page at rest in search mode, the last call having filled the cache   *)
(* under any scope the five states can hold, with well-formed records or    *)
(* with records that lack fields.                                           *)

\* texts the customer filter (a string state) can hold
CustomerTexts == CustomerValues \cup {<<"0", "7">>}

\* the page at rest in search mode with the settled text `text', under the
\* scope and the cached list the state holds, `last' being the call that
\* filled the cache and showed the page
AtRestSearchingFor(text, last) ==
    LET term == Trim(text)
        filteredSales == FilteredSales(allSalesCacheRef, term)
    IN /\ searchTerm = text
       /\ debouncedSearchTerm = text
       /\ currentPage = 1
       /\ loading = FALSE
       /\ orders = PaginatedSales(filteredSales, 1)
       /\ totalPages = SearchTotalPages(filteredSales)
       /\ summary = SearchSummary(filteredSales)
       /\ cacheKeyRef = CurrentKey(filterStatus, filterPaymentMethod, dateFrom, dateTo,
                                   filterCustomer)
       /\ timers = {}
       /\ quiet = DEBOUNCE_MS
       /\ inflight = {}
       /\ nextId = last + 1
       /\ requests = last
       /\ cacheFrom = Request(last, TRUE, cacheKeyRef,
                              BaseParams(filterStatus, filterPaymentMethod, dateFrom, dateTo,
                                         filterCustomer), 1)
       /\ shownBy = last
       /\ cachedBy = last
       /\ leftSearch = FALSE
       /\ lastSearch = [id |-> last, failed |-> FALSE]
       /\ CreditsUnmounted
       /\ ev = [kind |-> "resume", id |-> last, search |-> TRUE, term |-> term, page |-> 1,
                hit |-> FALSE, out |-> "ok", data |-> [sales |-> allSalesCacheRef], toasts |-> 0,
                prevPage |-> 1]

AtRestSearching(last) == AtRestSearchingFor(<<"b", "x">>, last)

ScopeInit ==
    /\ allSalesCacheRef \in {ShortList, MalformedList}
    /\ filterStatus \in StatusValues
    /\ filterPaymentMethod \in PaymentValues
    /\ dateFrom \in DateFromValues
    /\ dateTo \in DateToValues
    /\ filterCustomer \in CustomerTexts
    /\ AtRestSearching(MaxCycles - 1)

ScopeSpec == ScopeInit /\ [][Next]_vars

(* Leaving search mode and coming back: the page at rest in search mode     *)
(* under the default scope with the full list cached, two calls before the  *)
(* last one.                                                                *)

SearchInit ==
    /\ allSalesCacheRef = ShortList
    /\ filterStatus = All
    /\ filterPaymentMethod = All
    /\ dateFrom = <<>>
    /\ dateTo = <<>>
    /\ filterCustomer = <<>>
    /\ AtRestSearching(MaxCycles - 2)

SearchSpec == SearchInit /\ [][Next]_vars

(* Overlapping calls in search mode: the same state at rest, three calls    *)
(* before the last one.                                                     *)

OverlapInit ==
    /\ allSalesCacheRef = ShortList
    /\ filterStatus = All
    /\ filterPaymentMethod = All
    /\ dateFrom = <<>>
    /\ dateTo = <<>>
    /\ filterCustomer = <<>>
    /\ AtRestSearching(MaxCycles - 3)

OverlapSpec == OverlapInit /\ [][Next]_vars

(* Two pages of matches: the page at rest in search mode with the long list *)
(* cached and page 1 of 2 shown, two calls before the last one.             *)

PagedInit ==
    /\ allSalesCacheRef = LongList
    /\ filterStatus = All
    /\ filterPaymentMethod = All
    /\ dateFrom = <<>>
    /\ dateTo = <<>>
    /\ filterCustomer = <<>>
    /\ AtRestSearchingFor(<<"A", "b", " ">>, MaxCycles - 2)

PagedSpec == PagedInit /\ [][Next]_vars

-----------------------------------------------------------------------------
(* What the claims speak of *)

SearchableFields == {"orderNumber", "customerName", "createdBy", "paymentMethod"}

\* t occurs in s, letter case ignored
OccursIgnoringCase(s, t) ==
    \E i \in 0..(Len(s) - Len(t)) :
        \A j \in 1..Len(t) : LowerChar(s[i + j]) = LowerChar(t[j])

\* the positions of the cached list whose sale matches the term in some field
MatchingPositions(cache, term) ==
    {i \in 1..Len(cache) :
        \E f \in SearchableFields \cap DOMAIN cache[i] : OccursIgnoringCase(cache[i][f], term)}

\* the place of position i among the matching positions
RankIn(positions, i) == Cardinality({j \in positions : j <= i})

RECURSIVE TotalOver(_, _)
TotalOver(cache, positions) ==
    IF positions = {} THEN 0
    ELSE LET i == CHOOSE i \in positions : TRUE
         IN cache[i].total + TotalOver(cache, positions \ {i})

\* the last step was a fetchOrders call in search mode writing its page
SearchCommitted ==
    /\ ev.id # 0
    /\ ev.search
    /\ ev.hit \/ (ev.kind = "resume" /\ ev.out # "throw")

ScopeKeyNow == CurrentKey(filterStatus, filterPaymentMethod, dateFrom, dateTo, filterCustomer)

-----------------------------------------------------------------------------
(* C1: a response of an earlier-triggered fetchOrders call that arrives      *)
(* after a later-triggered call has committed does not overwrite what the    *)
(* later call wrote: the displayed orders, totalPages and summary, and the   *)
(* cached list and its key, are only ever written by a call at least as      *)
(* recent as their last writer.                                              *)
C1_StaleResponseNeverOverwrites ==
    [][shownBy' >= shownBy /\ cachedBy' >= cachedBy]_vars

(* C2: after a search-mode call commits, the displayed orders are exactly    *)
(* the call's page of the cached list filtered by case-insensitive substring *)
(* match of the trimmed settled text against orderNumber, customerName,      *)
(* createdBy or paymentMethod, in the cached list's order.                   *)
C2_SearchPageIsSliceOfFilteredCache ==
    SearchCommitted =>
        LET m == MatchingPositions(allSalesCacheRef, ev.term)
            lo == (ev.page - 1) * ITEMS_PER_PAGE
            shown == {i \in m : RankIn(m, i) > lo /\ RankIn(m, i) <= lo + ITEMS_PER_PAGE}
        IN /\ Len(orders) = Cardinality(shown)
           /\ \A i \in shown : orders[RankIn(m, i) - lo] = allSalesCacheRef[i]

\* a search call has shown a second page, reached through case folding and trimming
C2_Witness ==
    /\ SearchCommitted
    /\ ev.page = 2
    /\ orders # <<>>
    /\ debouncedSearchTerm = <<"A", "b", " ">>

(* C3: after a search-mode call commits, the summary is over the whole       *)
(* filtered list, not the visible page: totalSales is the sum of total over  *)
(* every matching sale, totalOrders their number, avgOrderValue their        *)
(* quotient, or 0 when nothing matches.                                      *)
C3_SearchSummaryOverWholeFilteredList ==
    SearchCommitted =>
        LET m == MatchingPositions(allSalesCacheRef, ev.term)
        IN /\ summary.totalOrders = Cardinality(m)
           /\ summary.totalSales = TotalOver(allSalesCacheRef, m)
           /\ IF m = {}
              THEN summary.avgOrderValue = Zero
              ELSE /\ summary.avgOrderValue.den > 0
                   /\ summary.avgOrderValue.num * Cardinality(m)
                          = summary.totalSales * summary.avgOrderValue.den

\* a search call has shown one page of a filtered list that is longer than a page
C3_Witness ==
    /\ SearchCommitted
    /\ summary.totalOrders > ITEMS_PER_PAGE
    /\ Len(orders) < summary.totalOrders

(* C4: a search-mode call issues a network request if and only if, when it   *)
(* starts, the recorded scope key differs from the current scope key or the  *)
(* cached list is empty; otherwise it writes its page from the cache and     *)
(* issues no request.                                                        *)
C4_SearchFetchesIffCacheInvalid ==
    [][(nextId' = nextId + 1 /\ IsSearching(debouncedSearchTerm'))
        => IF cacheKeyRef # ScopeKeyNow' \/ allSalesCacheRef = <<>>
           THEN requests' = requests + 1 /\ Cardinality(inflight') = Cardinality(inflight) + 1
           ELSE requests' = requests /\ inflight' = inflight /\ shownBy' = nextId]_vars

\* a search call was served from a valid cache, after one that had to fetch
C4_Witness ==
    /\ ev.id # 0
    /\ ev.search
    /\ ev.hit
    /\ cacheFrom.id # 0
    /\ cacheFrom.id < ev.id

\* the fetchOrders call the last step resumed, as it was in flight
Resumed(c) == c \in inflight /\ c \notin inflight' /\ ev'.kind = "resume"

\* the fetchOrders call the last step started and left suspended at its await
Started(c) == c \in inflight' /\ c \notin inflight /\ inflight' = inflight \cup {c}

(* C5: whenever a Filter Scope field changes while in search mode, the call  *)
(* it triggers issues a full-scope request (limit 10000, page 1) for the new *)
(* scope, and once that call completes the cache no longer holds the records *)
(* fetched for the previous scope (it is empty or holds this call's          *)
(* response), whatever the outcome of the request.                           *)
C5_ScopeChangeRefetchesAndDropsOldCache ==
    [][/\ (ev'.kind = "scope" /\ ev'.search)
            => \E c \in inflight' : /\ Started(c)
                                    /\ c.request.limit = FULL_SCOPE_LIMIT
                                    /\ c.request.page = 1
                                    /\ c.request.key = ScopeKeyNow'
       /\ \A c \in inflight :
             (Resumed(c) /\ c.isSearching /\ c.trigger = "scope")
                 => allSalesCacheRef' = <<>> \/ cacheFrom'.id = c.id]_vars

(* C6: the settled search text changes only to the raw text as it stands     *)
(* after DEBOUNCE_MS without a change of the raw text: of a burst of changes *)
(* less than DEBOUNCE_MS apart no intermediate value settles.                *)
C6_OnlyQuietTextSettles ==
    [][debouncedSearchTerm' # debouncedSearchTerm
        => debouncedSearchTerm' = searchTerm /\ quiet = DEBOUNCE_MS]_vars

\* a raw text other than the first has settled
C6_Witness ==
    /\ ev.kind = "timer"
    /\ ev.id # 0
    /\ debouncedSearchTerm = searchTerm
    /\ searchTerm # <<>>

(* C7: when the debounce timer fires and the raw text has trimmed length 1,  *)
(* the settled text and the current page are unchanged, no fetchOrders call  *)
(* is triggered and the mode (searching or not) does not change.             *)
C7_LengthOneNeverSettles ==
    [][(ev'.kind = "timer" /\ Len(Trim(searchTerm)) = 1)
        => /\ UNCHANGED <<debouncedSearchTerm, currentPage, nextId, requests, inflight>>
           /\ ev'.id = 0]_vars

\* the timer fired on a one-letter text, on page 2, while searching
C7_Witness ==
    /\ ev.kind = "timer"
    /\ Len(Trim(searchTerm)) = 1
    /\ currentPage = 2
    /\ IsSearching(debouncedSearchTerm)

(* C8: every step that changes the settled search text sets the current page *)
(* to 1 in the same state, and the fetchOrders call it triggers runs with    *)
(* the new text and page 1.                                                  *)
C8_SettleResetsPage ==
    [][debouncedSearchTerm' # debouncedSearchTerm
        => /\ currentPage' = 1
           /\ ev'.id # 0
           /\ ev'.page = 1
           /\ ev'.term = Trim(debouncedSearchTerm')]_vars

\* a text settled while page 2 was shown
C8_Witness ==
    /\ ev.kind = "timer"
    /\ ev.id # 0
    /\ ev.prevPage = 2
    /\ ev.search
    /\ currentPage = 1

(* C9: the mode (trimmed settled text of length >= 2) changes only in a step *)
(* of the debounce timer, and every fetchOrders call runs in the mode of the *)
(* settled text: a change of a filter, of the page or of the raw text alone  *)
(* never flips it.                                                           *)
C9_ModeFlipsOnlyOnSettle ==
    [][/\ IsSearching(debouncedSearchTerm') # IsSearching(debouncedSearchTerm)
            => ev'.kind = "timer"
       /\ (ev'.id # 0 /\ ev'.kind # "resume")
            => ev'.search = IsSearching(debouncedSearchTerm')]_vars

\* a filter changed while searching, the raw text already emptied but not settled
C9_Witness ==
    /\ ev.kind = "scope"
    /\ ev.search
    /\ searchTerm = <<>>
    /\ IsSearching(debouncedSearchTerm)

\* the request filters a scope asks for
FiltersOfScope(params) ==
    /\ DOMAIN params = (IF filterStatus # All THEN {"status"} ELSE {})
                       \cup (IF filterCustomer # <<>> THEN {"customerId"} ELSE {})
                       \cup (IF dateFrom # <<>> THEN {"dateFrom"} ELSE {})
                       \cup (IF dateTo # <<>> THEN {"dateTo"} ELSE {})
                       \cup (IF filterPaymentMethod # All THEN {"paymentMethod"} ELSE {})
    /\ "status" \in DOMAIN params => params["status"] = filterStatus
    /\ "customerId" \in DOMAIN params => params["customerId"] = ParseInt(filterCustomer)
    /\ "dateFrom" \in DOMAIN params => params["dateFrom"] = dateFrom
    /\ "dateTo" \in DOMAIN params => params["dateTo"] = dateTo
    /\ "paymentMethod" \in DOMAIN params => params["paymentMethod"] = filterPaymentMethod

(* C10: every fetchOrders call in non-search mode issues exactly one network *)
(* request, with limit ITEMS_PER_PAGE, page currentPage and the filters of   *)
(* the current scope, whatever the cache and the recorded key hold; it       *)
(* issues none when it resumes.                                              *)
C10_NonSearchAlwaysFetchesItsPage ==
    [][/\ (ev'.id # 0 /\ ev'.kind # "resume" /\ ~IsSearching(debouncedSearchTerm'))
            => /\ requests' = requests + 1
               /\ \E c \in inflight' : /\ Started(c)
                                       /\ c.request.limit = ITEMS_PER_PAGE
                                       /\ c.request.page = currentPage'
                                       /\ FiltersOfScope(c.request.params)'
       /\ (ev'.kind = "resume" /\ ~ev'.search) => requests' = requests]_vars

\* a non-search call went to the network with a valid cache in place
C10_Witness ==
    /\ ev.id # 0
    /\ ev.kind # "resume"
    /\ ~ev.search
    /\ ~ev.hit
    /\ Cardinality(inflight) = 1
    /\ allSalesCacheRef # <<>>
    /\ cacheKeyRef = ScopeKeyNow

\* the last step completed a non-search fetchOrders call whose request succeeded
PageCommitted == ev.kind = "resume" /\ ~ev.search /\ ev.out = "ok"

\* the display shows the records and the summary of the response of the last step
ShowsResponseVerbatim ==
    /\ orders = (IF "sales" \in DOMAIN ev.data THEN ev.data.sales ELSE <<>>)
    /\ summary = (IF "summary" \in DOMAIN ev.data THEN ev.data.summary
                  ELSE [totalSales |-> 0, totalOrders |-> 0, avgOrderValue |-> Zero])

(* C11 as stated: when a non-search call completes with a successful         *)
(* response, the displayed records and summary are those of the response     *)
(* (none and all-zero when absent) and totalPages is the totalPages of the   *)
(* response's pagination, 1 if the pagination is absent.                     *)
C11_PageShownAsReturned ==
    PageCommitted =>
        /\ ShowsResponseVerbatim
        /\ totalPages = (IF "pagination" \in DOMAIN ev.data
                         THEN ev.data.pagination.totalPages ELSE 1)

(* C11 amended: when a non-search call completes with a successful response, *)
(* the displayed records and summary are those of the response (none and     *)
(* all-zero when absent) and totalPages is the totalPages of the response's  *)
(* pagination, or 1 if the pagination is absent or its totalPages is 0.      *)
C11_PageShownAsReturnedOrOnePage ==
    PageCommitted =>
        /\ ShowsResponseVerbatim
        /\ totalPages = (IF "pagination" \in DOMAIN ev.data
                            /\ ev.data.pagination.totalPages # 0
                         THEN ev.data.pagination.totalPages ELSE 1)

\* a call after the mount's showed a response with records, pages and a summary
C11_Witness ==
    /\ PageCommitted
    /\ ev.id > 1
    /\ orders # <<>>
    /\ totalPages = 3
    /\ summary.totalOrders = 45

(* C12: after every non-search fetchOrders call completes, whether its       *)
(* request succeeded or failed, the cached list is empty and the recorded    *)
(* scope key is the scope key of that call.                                  *)
C12_NonSearchCycleResetsCache ==
    [][\A c \in inflight :
          (Resumed(c) /\ ~c.isSearching)
              => allSalesCacheRef' = <<>> /\ cacheKeyRef' = c.currentKey]_vars

(* C13: the cached list is empty or the response of a full-scope request     *)
(* (limit FULL_SCOPE_LIMIT, page 1) issued by a search-mode call: it becomes *)
(* a non-empty list only when such a call completes with a successful        *)
(* response, as that response's sales, and a non-search call never writes    *)
(* records into it.                                                          *)
C13_CacheHoldsOnlyFullScopeResponses ==
    [][/\ allSalesCacheRef' # <<>>
            => /\ cacheFrom'.id # 0
               /\ cacheFrom'.limit = FULL_SCOPE_LIMIT
               /\ cacheFrom'.page = 1
       /\ (allSalesCacheRef' # <<>> /\ allSalesCacheRef' # allSalesCacheRef)
            => \E c \in inflight : /\ Resumed(c)
                                   /\ c.isSearching
                                   /\ c.request.limit = FULL_SCOPE_LIMIT
                                   /\ c.request.page = 1
                                   /\ cacheFrom' = c.request
                                   /\ ev'.out = "ok"
                                   /\ allSalesCacheRef' = ev'.data.sales
       /\ \A c \in inflight :
             (Resumed(c) /\ ~c.isSearching)
                 => allSalesCacheRef' = <<>> \/ allSalesCacheRef' = allSalesCacheRef
       /\ \A c \in inflight' : c.request.limit = FULL_SCOPE_LIMIT => c.isSearching]_vars

\* the third call, a search, filled the cache after page responses were shown
C13_Witness ==
    /\ ev.kind = "resume"
    /\ ev.search
    /\ ev.out = "ok"
    /\ ev.id = 3
    /\ allSalesCacheRef # <<>>
    /\ cacheFrom.id = 3

\* the last step completed a fetchOrders call whose request failed
RequestFailed == ev.kind = "resume" /\ ev.out \in {"fail", "throw"}

(* C14: when the request of a search-mode call fails (a success:false        *)
(* response or a thrown error), the call ends with no displayed records,     *)
(* totalPages 1, an empty cached list and a failure notification.            *)
C14_SearchFailureShowsEmptyAndNotifies ==
    (RequestFailed /\ ev.search)
        => /\ orders = <<>>
           /\ totalPages = 1
           /\ allSalesCacheRef = <<>>
           /\ ev.toasts >= 1

(* C15: when the request of a non-search call fails (a success:false         *)
(* response or a thrown error), a failure notification is emitted and the    *)
(* displayed records, totalPages and summary are what they were before.      *)
C15_NonSearchFailureNotifiesAndKeepsDisplay ==
    [][(RequestFailed' /\ ~ev'.search)
        => /\ ev'.toasts >= 1
           /\ UNCHANGED <<orders, totalPages, summary>>]_vars

(* C16: the loading indicator turns true only in a step that starts a call   *)
(* issuing a network request, and a search-mode call served from the cache   *)
(* leaves the loading indicator as it was.                                   *)
C16_LoadingOnlyWithRequest ==
    [][/\ (loading' /\ ~loading)
            => /\ requests' = requests + 1
               /\ \E c \in inflight' : Started(c)
       /\ ev'.hit => (loading' = loading /\ requests' = requests)]_vars

\* a page change while searching was served from the cache, the page not loading
C16_Witness ==
    /\ ev.hit
    /\ ev.kind = "page"
    /\ ~loading
    /\ inflight = {}

(* C17: in every reachable state with at least one request in flight the     *)
(* loading indicator is true, also when calls overlap and one of them        *)
(* completes before the others.                                              *)
C17_LoadingWhileInFlight == inflight # {} => loading

(* C18: every change of a Filter Scope field (status, payment method,        *)
(* dateFrom, dateTo, customer) sets the current page to 1, and the call it   *)
(* triggers runs with page 1.                                                *)
C18_ScopeChangeResetsPage ==
    [][ev'.kind = "scope" => (currentPage' = 1 /\ ev'.page = 1)]_vars

(* C19: after a search-mode call commits, totalPages is the least number of  *)
(* pages of ITEMS_PER_PAGE that hold every matching sale of the cached list, *)
(* and 1 when nothing matches: it is never less than 1.                      *)
C19_SearchTotalPagesIsCeiling ==
    SearchCommitted =>
        LET filteredCount == Cardinality(MatchingPositions(allSalesCacheRef, ev.term))
        IN /\ totalPages >= 1
           /\ filteredCount = 0 => totalPages = 1
           /\ filteredCount > 0
                => /\ totalPages * ITEMS_PER_PAGE >= filteredCount
                   /\ (totalPages - 1) * ITEMS_PER_PAGE < filteredCount

\* a search showed a filtered list that needs a second, partly filled page
C19_Witness ==
    /\ SearchCommitted
    /\ totalPages = 2
    /\ summary.totalOrders % ITEMS_PER_PAGE # 0

\* a search that matches nothing still shows one page
C19_WitnessEmpty ==
    /\ SearchCommitted
    /\ ev.out = "ok"
    /\ summary.totalOrders = 0
    /\ totalPages = 1

\* the scopes at hand in a state, each with its key and its request filters:
\* the current one, those of the requests in flight, and the cached list's
ScopesAtHand ==
    {[key |-> ScopeKeyNow,
      params |-> BaseParams(filterStatus, filterPaymentMethod, dateFrom, dateTo,
                            filterCustomer)]}
    \cup {[key |-> c.request.key, params |-> c.request.params] : c \in inflight}
    \cup (IF cacheFrom.id # 0
          THEN {[key |-> cacheFrom.key, params |-> cacheFrom.params]} ELSE {})

(* C20: the scope key depends on the Filter Scope only (a call's key is the  *)
(* key of the scope it runs under, whatever the search text and the page),   *)
(* and two scopes have the same request filters if and only if they have the *)
(* same key.                                                                 *)
C20_SameKeyIffSameFilters ==
    /\ \A c \in inflight : \E fs \in StatusValues, fpm \in PaymentValues,
                              df \in DateFromValues, dt \in DateToValues,
                              fc \in CustomerTexts :
            /\ c.currentKey = CurrentKey(fs, fpm, df, dt, fc)
            /\ c.request.key = c.currentKey
            /\ c.request.params = BaseParams(fs, fpm, df, dt, fc)
    /\ \A a, b \in ScopesAtHand : (a.key = b.key) <=> (a.params = b.params)

\* equal keys stand for equal request filters
SameKeySameFilters ==
    \A a, b \in ScopesAtHand : (a.key = b.key) => (a.params = b.params)

(* C21: in every reachable state the view-model is well-formed: the          *)
(* displayed orders are a list of at most ITEMS_PER_PAGE records, the        *)
(* summary is a record with totalSales, totalOrders and avgOrderValue, and   *)
(* totalPages is at least 1.                                                 *)
C21_ViewModelWellFormed ==
    /\ DOMAIN orders = 1..Len(orders)
    /\ Len(orders) <= ITEMS_PER_PAGE
    /\ \A i \in 1..Len(orders) : "id" \in DOMAIN orders[i]
    /\ DOMAIN summary = {"totalSales", "totalOrders", "avgOrderValue"}
    /\ totalPages >= 1

\* a request threw while a full page of a longer filtered list was on display
C21_Witness ==
    /\ ev.kind = "resume"
    /\ ev.out = "throw"
    /\ Len(orders) = ITEMS_PER_PAGE
    /\ totalPages = 2

\* the sum of total over the positions, a missing total counting as 0
RECURSIVE TotalOrZeroOver(_, _)
TotalOrZeroOver(cache, positions) ==
    IF positions = {} THEN 0
    ELSE LET i == CHOOSE i \in positions : TRUE
         IN (IF "total" \in DOMAIN cache[i] THEN cache[i].total ELSE 0)
                + TotalOrZeroOver(cache, positions \ {i})

\* the page and the summary are those of a cache whose missing fields are
\* read as the empty string and as 0
MissingFieldsReadAsEmptyAndZero ==
    SearchCommitted =>
        LET m == MatchingPositions(allSalesCacheRef, ev.term)
        IN /\ summary.totalOrders = Cardinality(m)
           /\ Len(orders) = Min(ITEMS_PER_PAGE,
                                Max(0, Cardinality(m) - (ev.page - 1) * ITEMS_PER_PAGE))
           /\ summary.totalSales # NaN
           /\ summary.avgOrderValue.num # NaN
           /\ summary.totalSales = TotalOrZeroOver(allSalesCacheRef, m)

(* C22: every search-mode call that commits leaves a page and a summary in   *)
(* which a cached record matches only through the searchable fields it has   *)
(* (a missing field is the empty string, never a failure) and a record       *)
(* without total adds 0 to totalSales: the summary is numeric, totalSales    *)
(* being the sum of the totals present.                                      *)
C22_MissingFieldsDegradeToEmptyAndZero ==
    [][(ev'.id # ev.id) => MissingFieldsReadAsEmptyAndZero']_vars

\* records lacking searchable fields are filtered without a failure
MissingSearchableFieldNeverMatches ==
    SearchCommitted =>
        LET m == MatchingPositions(allSalesCacheRef, ev.term)
        IN /\ summary.totalOrders = Cardinality(m)
           /\ \A i \in 1..Len(orders) : \E j \in m : orders[i] = allSalesCacheRef[j]

(* C23: each fetchOrders call issues at most one request and a request that  *)
(* failed is never issued again: a request is issued only by a step that     *)
(* starts a new call, on a change of scope, page or settled search text or   *)
(* on a refresh; the step that ends a request issues none and leaves one     *)
(* request less in flight.                                                   *)
C23_OneRequestPerCycleNoRetry ==
    [][/\ requests' \in {requests, requests + 1}
       /\ requests' = requests + 1
            => /\ ev'.kind \in {"scope", "page", "timer", "refresh"}
               /\ ev'.id = nextId
               /\ nextId' = nextId + 1
               /\ \A c \in inflight : c.id < nextId
               /\ \E c \in inflight' : Started(c) /\ c.id = nextId
       /\ ev'.kind = "scope" => ScopeKeyNow' # ScopeKeyNow
       /\ ev'.kind = "page" => currentPage' # currentPage
       /\ (ev'.kind = "timer" /\ ev'.id # 0)
            => (debouncedSearchTerm' # debouncedSearchTerm \/ currentPage' # currentPage)
       /\ ev'.kind = "resume"
            => /\ requests' = requests
               /\ nextId' = nextId
               /\ inflight' \subseteq inflight
               /\ Cardinality(inflight') = Cardinality(inflight) - 1]_vars

\* a request failed and nothing is in flight after it
C23_Witness ==
    /\ RequestFailed
    /\ ev.id > 1
    /\ inflight = {}
    /\ requests = ev.id

\* the step starts a search-mode call while the page was already in search
\* mode, under the scope key it had
SearchGoesOn ==
    /\ IsSearching(debouncedSearchTerm)
    /\ ev'.id # 0
    /\ ev'.kind # "resume"
    /\ ev'.search
    /\ ScopeKeyNow' = ScopeKeyNow

CacheSlotConsistent ==
    allSalesCacheRef # <<>>
        => /\ cacheFrom.id # 0
           /\ cacheFrom.limit = FULL_SCOPE_LIMIT
           /\ cacheFrom.key = cacheKeyRef
           /\ \E fs \in StatusValues, fpm \in PaymentValues, df \in DateFromValues,
                 dt \in DateToValues, fc \in CustomerTexts :
                  /\ cacheKeyRef = fs \o <<"|">> \o fpm \o <<"|">> \o df \o <<"|">>
                                      \o dt \o <<"|">> \o fc
                  /\ cacheFrom.params = BaseParams(fs, fpm, df, dt, fc)

(* C25: the single cache slot is consistent in every state: a non-empty      *)
(* cached list is the response of a full-scope request made with the        *)
(* filters of the scope whose key is the recorded key, and no step gives a   *)
(* non-empty list a new key, or a key a new non-empty list, other than the   *)
(* call that received the list and records its own key with it.              *)
C25_CacheSlotPairsListWithItsKey ==
    [][/\ CacheSlotConsistent'
       /\ (allSalesCacheRef' # <<>>
              /\ (allSalesCacheRef' # allSalesCacheRef \/ cacheKeyRef' # cacheKeyRef))
            => \E c \in inflight : /\ Resumed(c)
                                   /\ c.isSearching
                                   /\ ev'.out = "ok"
                                   /\ allSalesCacheRef' = ev'.data.sales
                                   /\ cacheKeyRef' = c.request.key
                                   /\ cacheFrom' = c.request]_vars

\* the cache holds the full list of a scope other than the first one
C25_Witness ==
    /\ allSalesCacheRef # <<>>
    /\ cacheKeyRef = ScopeKeyNow
    /\ filterCustomer # <<>>
    /\ inflight = {}

\* records, totalPages and summary describe one record universe: that of the
\* call of the last step
DisplayOfOneUniverse ==
    /\ SearchCommitted
         => LET n == Cardinality(MatchingPositions(allSalesCacheRef, ev.term))
            IN /\ summary.totalOrders = n
               /\ totalPages = Max(1, (n + ITEMS_PER_PAGE - 1) \div ITEMS_PER_PAGE)
               /\ Len(orders) = Min(ITEMS_PER_PAGE,
                                    Max(0, n - (ev.page - 1) * ITEMS_PER_PAGE))
    /\ PageCommitted
         => /\ ShowsResponseVerbatim
            /\ "pagination" \in DOMAIN ev.data
                 => totalPages = Max(1, ev.data.pagination.totalPages)

(* C26: the displayed records, totalPages and summary are always those of    *)
(* one fetchOrders call: a step that changes any of the three is a call's    *)
(* commit, which writes all three for one record universe (the filtered      *)
(* cache, or one server response).                                           *)
C26_DisplayCommittedTogether ==
    [][/\ (<<orders, totalPages, summary>>' # <<orders, totalPages, summary>>)
            => /\ (SearchCommitted \/ PageCommitted)'
               /\ shownBy' = ev'.id
       /\ DisplayOfOneUniverse']_vars

\* a late response of an earlier call replaced the display of a search
C26_Witness ==
    /\ PageCommitted
    /\ shownBy = ev.id
    /\ cachedBy = ev.id
    /\ ev.id + 1 < nextId
    /\ IsSearching(debouncedSearchTerm)

(* C27: every step that changes a Filter Scope field, the current page or    *)
(* the settled search text starts a fetchOrders call, run with the new       *)
(* values; a step that changes the raw search text starts none and issues    *)
(* no request.                                                               *)
C27_DependencyChangeTriggersCycle ==
    [][/\ (\/ <<filterStatus, filterPaymentMethod, dateFrom, dateTo, filterCustomer>>'
                 # <<filterStatus, filterPaymentMethod, dateFrom, dateTo, filterCustomer>>
           \/ currentPage' # currentPage
           \/ debouncedSearchTerm' # debouncedSearchTerm)
            => /\ nextId' = nextId + 1
               /\ ev'.id = nextId
               /\ ev'.page = currentPage'
               /\ ev'.term = Trim(debouncedSearchTerm')
               /\ ev'.hit \/ \E c \in inflight' : Started(c) /\ c.currentKey = ScopeKeyNow'
       /\ searchTerm' # searchTerm
            => /\ nextId' = nextId
               /\ ev'.id = 0
               /\ requests' = requests
               /\ inflight' = inflight]_vars

\* the raw text changed while searching, after two calls, and no call started
C27_Witness ==
    /\ ev.kind = "type"
    /\ nextId = 3
    /\ IsSearching(debouncedSearchTerm)
    /\ searchTerm # debouncedSearchTerm

(* C28: if every issued request eventually resolves, a loading indicator     *)
(* that is true eventually turns false, and it is false whenever no call is  *)
(* in flight, for any number of overlapping calls and any order of their     *)
(* responses.                                                                *)
C28_LoadingEndsWhenRequestsResolve ==
    /\ [](inflight = {} => ~loading)
    /\ loading ~> ~loading

\* two overlapping calls have ended, the later one first
C28_Witness ==
    /\ ev.kind = "resume"
    /\ ev.id = 2
    /\ nextId = 4
    /\ inflight = {}
    /\ ~loading

(* C29: a fetchOrders call whose request throws changes nothing but the      *)
(* loading indicator, in search mode and in non-search mode: its start       *)
(* writes neither display nor cache, and its end leaves orders, totalPages,  *)
(* summary, the cached list and the recorded key as they were and emits      *)
(* exactly one error notification.                                           *)
C29_ThrowChangesOnlyLoading ==
    [][/\ \A c \in inflight' :
             Started(c)
                 => /\ UNCHANGED <<orders, totalPages, summary, allSalesCacheRef, cacheKeyRef>>
                    /\ ev'.toasts = 0
       /\ \A c \in inflight :
             (Resumed(c) /\ ev'.out = "throw")
                 => /\ UNCHANGED <<orders, totalPages, summary, allSalesCacheRef, cacheKeyRef,
                                   currentPage, searchTerm, debouncedSearchTerm, filterStatus,
                                   filterPaymentMethod, dateFrom, dateTo, filterCustomer>>
                    /\ ev'.toasts = 1
                    /\ ~loading']_vars

\* a search-mode request threw, the list cached before it still in place
C29_Witness ==
    /\ ev.kind = "resume"
    /\ ev.out = "throw"
    /\ ev.search
    /\ allSalesCacheRef # <<>>
    /\ orders # <<>>

\* a non-search request threw
C29_WitnessNonSearch ==
    /\ ev.kind = "resume"
    /\ ev.out = "throw"
    /\ ~ev.search
    /\ ev.id > 1
    /\ orders # <<>>

-----------------------------------------------------------------------------
(* C30: after a non-search call has succeeded with no other call in flight,  *)
(* the next call in search mode issues a full-scope request (limit 10000,    *)
(* page 1) and serves nothing from the cache, also when the scope is the one *)
(* a full list had been cached for before: the cached list does not outlive  *)
(* the leaving of search mode.                                               *)

\* the cache holds no list once search mode was left
CacheGoneAfterLeaving == leftSearch => allSalesCacheRef = <<>>

C30_SearchAfterNonSearchFetches ==
    /\ [][CacheGoneAfterLeaving']_vars
    /\ [][(leftSearch /\ nextId' = nextId + 1 /\ ev'.search)
            => /\ ~ev'.hit
               /\ requests' = requests + 1
               /\ UNCHANGED <<orders, totalPages, summary>>
               /\ \E c \in inflight' :
                     /\ Started(c)
                     /\ c.id = nextId
                     /\ c.request.limit = FULL_SCOPE_LIMIT
                     /\ c.request.page = 1
                     /\ c.request.key = ScopeKeyNow']_vars

\* search mode was left and entered again under the scope whose full list had
\* been cached: the page shows the non-search response (three pages), the
\* key is the scope's, and the call that has just started awaits its request
C30_Witness ==
    /\ ev.kind = "timer"
    /\ ev.search
    /\ ~ev.hit
    /\ ev.id = MaxCycles
    /\ shownBy = ev.id - 1
    /\ cachedBy = ev.id - 1
    /\ totalPages = 3
    /\ allSalesCacheRef = <<>>
    /\ cacheKeyRef = ScopeKeyNow
    /\ \E c \in inflight : c.id = ev.id /\ c.request.limit = FULL_SCOPE_LIMIT

-----------------------------------------------------------------------------
(* C31: a search-mode request answered with success:false empties the cached *)
(* list and leaves the recorded scope key as it was, and the failure is not  *)
(* cached: the search-mode call triggered next, whatever its scope, issues a *)
(* request again.                                                            *)

\* the failure empties the list and keeps the key
FailureEmptiesCacheKeepsKey ==
    \A c \in inflight :
        (Resumed(c) /\ c.isSearching /\ ev'.out = "fail")
            => allSalesCacheRef' = <<>> /\ cacheKeyRef' = cacheKeyRef

\* the search-mode call triggered next after the one that failed goes to the network
NextSearchAfterFailureFetches ==
    (lastSearch.failed /\ nextId' = nextId + 1 /\ ev'.search)
        => /\ ~ev'.hit
           /\ requests' = requests + 1
           /\ \E c \in inflight' : Started(c) /\ c.request.limit = FULL_SCOPE_LIMIT

C31_SearchFailureIsNotCached ==
    [][FailureEmptiesCacheKeepsKey /\ NextSearchAfterFailureFetches]_vars

-----------------------------------------------------------------------------
(* C32: whenever the debounce timer fires with a raw text of trimmed length  *)
(* 0 or at least 2, the current page becomes 1 and the text settles, also    *)
(* when the raw text is the text already settled (the first firing after     *)
(* mount, or a text typed and reverted): a page selected during the quiet    *)
(* period is overridden, and the call the reset triggers runs with page 1.   *)
C32_TimerAlwaysResetsPage ==
    [][\A t \in timers :
          (ev'.kind = "timer" /\ t \notin timers' /\ SettleGate(Len(Trim(t.term))))
              => /\ currentPage' = 1
                 /\ debouncedSearchTerm' = t.term
                 /\ currentPage # 1 => (ev'.id = nextId /\ ev'.page = 1)]_vars

\* the timer set at mount fired after page 2 had been selected: the settled
\* text was and stays empty, the page is 1 again and is fetched once more
C32_Witness ==
    /\ ev.kind = "timer"
    /\ ev.id = 3
    /\ nextId = 4
    /\ ev.prevPage = 2
    /\ ~ev.search
    /\ currentPage = 1
    /\ searchTerm = <<>>
    /\ debouncedSearchTerm = <<>>

\* a text typed and reverted within the quiet period, page 2 selected meanwhile
\* (reached under SearchSpec, where the page starts in search mode)
C32_WitnessReverted ==
    /\ ev.kind = "timer"
    /\ ev.search
    /\ ev.hit
    /\ ev.prevPage = 2
    /\ currentPage = 1
    /\ searchTerm = debouncedSearchTerm
    /\ cachedBy < ev.id - 1

-----------------------------------------------------------------------------
(* C33: after every search-mode call that has shown its page, the current    *)
(* page does not exceed totalPages, and the page shown is non-empty whenever *)
(* the filtered list is non-empty, whatever scope changes, page changes and  *)
(* settles came before. Page changes to a page beyond totalPages, which the  *)
(* pagination control may not offer, are left out of the statement.          *)

\* a search-mode call has shown its page in this step
SearchCallShown ==
    /\ ev'.search
    /\ shownBy' = ev'.id
    /\ ev'.hit \/ (ev'.kind = "resume" /\ ev'.out # "throw")

C33_SearchPageWithinTotalPages ==
    [][(SearchCallShown /\ ~(ev'.kind = "page" /\ ev'.page > totalPages))
        => /\ currentPage' <= totalPages'
           /\ FilteredSales(allSalesCacheRef', ev'.term) # <<>> => orders' # <<>>]_vars

-----------------------------------------------------------------------------
(* The Credits page *)

\* the Orders page is not mounted
OrdersUnmounted ==
    /\ orders = <<>>
    /\ loading = TRUE
    /\ currentPage = 1
    /\ totalPages = 1
    /\ searchTerm = <<>>
    /\ debouncedSearchTerm = <<>>
    /\ filterStatus = All
    /\ filterCustomer = <<>>
    /\ filterPaymentMethod = All
    /\ dateFrom = <<>>
    /\ dateTo = <<>>
    /\ summary = ZeroSummary
    /\ allSalesCacheRef = <<>>
    /\ cacheKeyRef = <<>>
    /\ timers = {}
    /\ quiet = 0
    /\ inflight = {}
    /\ nextId = 1
    /\ requests = 0
    /\ cacheFrom = NoRequest
    /\ shownBy = 0
    /\ cachedBy = 0
    /\ leftSearch = FALSE
    /\ lastSearch = [id |-> 0, failed |-> FALSE]
    /\ ev = NoCycle

\* customers as the service returns them: currentBalance positive, missing,
\* zero, negative (overpaid) or not a number
CustA == [id |-> 1, currentBalance |-> 250]
CustB == [id |-> 2]
CustC == [id |-> 3, currentBalance |-> 0]
CustD == [id |-> 4, currentBalance |-> 0 - 30]
CustE == [id |-> 5, currentBalance |-> 40]
CustF == [id |-> 6, currentBalance |-> NaN]

CustomerLists ==
    { <<CustB, CustA, CustC, CustD, CustE, CustF>>, <<CustE, CustC>> }

\* response.data of a successful customersApi.getAll (customers may be missing)
CustomersData == { [customers |-> l] : l \in CustomerLists } \cup { <<>> }

\* how customersApi.getAll ends
FetchOutcomes ==
    { [kind |-> "ok", data |-> d] : d \in CustomersData }
    \cup { [kind |-> "fail", data |-> <<>>], [kind |-> "throw", data |-> <<>>] }

\* parseFloat(amount) of the modals' amount field ("" gives NaN)
AmountValues == {NaN, 5}
MethodValues == {"cash"}
ReasonValues == {"goods"}

\* -amount
Neg(a) == IF a = NaN THEN NaN ELSE 0 - a

\* (c.currentBalance || 0)
BalanceOrZero(c) ==
    IF "currentBalance" \in DOMAIN c /\ c.currentBalance # NaN THEN c.currentBalance ELSE 0

\* Variant: customers with a zero balance count as having credit
HasCreditOrZero(c) == BalanceOrZero(c) >= 0

\* (c.currentBalance || 0) > 0
HasCredit(c) == BalanceOrZero(c) > 0

\* allCustomers.filter(...)
RECURSIVE WithCredits(_)
WithCredits(l) ==
    IF l = <<>> THEN <<>>
    ELSE (IF HasCredit(l[1]) THEN <<l[1]>> ELSE <<>>) \o WithCredits(Tail(l))

\* the page below the "Loading credits..." gate is rendered
CreditsShown == ~creditsLoading

\* the modals are rendered
ModalsShown == CreditsShown /\ selectedCustomer # Null

\* the customers whose cards are rendered
CardsOf(l) == { l[i] : i \in DOMAIN l }

\* fetchAllCustomers up to its await, called by `by'; the call's number is nextCall
fetchAllCustomers(by) ==
    /\ creditsLoading' = TRUE
    /\ fetching' = fetching \cup {[id |-> nextCall, by |-> by]}
    /\ UNCHANGED <<customers, customersWithCredits>>

\* Variant: the finally block is missing
CreditsLoadingLeft(was) == was

\* finally: setLoading(false)
CreditsLoadingOnEnd(was) == FALSE

\* fetchAllCustomers from its await to its end
fetchAllCustomersResume(f, out) ==
    /\ f \in fetching
    /\ out \in FetchOutcomes
    /\ fetching' = fetching \ {f}
    /\ IF out.kind = "ok"
       THEN /\ customers' = OrElse(out.data, "customers", <<>>)
            /\ customersWithCredits' = WithCredits(customers')
       ELSE UNCHANGED <<customers, customersWithCredits>>
    /\ creditsLoading' = CreditsLoadingOnEnd(creditsLoading)
    /\ cev' = [NoStep EXCEPT !.kind = "fetched", !.id = f.id, !.out = out.kind,
                             !.toasts = IF out.kind = "throw" THEN 1 ELSE 0]
    /\ UNCHANGED <<selectedCustomer, isPaymentModalOpen, isReceivableModalOpen,
                   isTransactionHistoryOpen, transactions, isAddCustomerOpen, isSyncing,
                   awaiting, syncAwaits, nextCall>>
    /\ UNCHANGED vars

\* a handler, called with input, calls a service with args and is suspended
\* at the await
Await(kind, input, args) ==
    /\ nextCall <= MaxCalls
    /\ nextCall' = nextCall + 1
    /\ awaiting' = awaiting \cup {[id |-> nextCall, kind |-> kind, args |-> args]}
    /\ cev' = [NoStep EXCEPT !.kind = kind, !.id = nextCall, !.input = input, !.args = args]

\* the Payment button of a customer's card
openPaymentModal(c) ==
    /\ CreditsShown
    /\ c \in CardsOf(customersWithCredits)
    /\ selectedCustomer' = c
    /\ isPaymentModalOpen' = TRUE
    /\ cev' = [NoStep EXCEPT !.kind = "openPayment"]
    /\ UNCHANGED <<customers, customersWithCredits, creditsLoading, isReceivableModalOpen,
                   isTransactionHistoryOpen, transactions, isAddCustomerOpen, isSyncing,
                   fetching, awaiting, syncAwaits, nextCall>>
    /\ UNCHANGED vars

\* the Add Credit button of a customer's card
openReceivableModal(c) ==
    /\ CreditsShown
    /\ c \in CardsOf(customersWithCredits)
    /\ selectedCustomer' = c
    /\ isReceivableModalOpen' = TRUE
    /\ cev' = [NoStep EXCEPT !.kind = "openReceivable"]
    /\ UNCHANGED <<customers, customersWithCredits, creditsLoading, isPaymentModalOpen,
                   isTransactionHistoryOpen, transactions, isAddCustomerOpen, isSyncing,
                   fetching, awaiting, syncAwaits, nextCall>>
    /\ UNCHANGED vars

\* onOpenChange(false) of a modal: Cancel, Escape or a click outside
closeModal ==
    /\ ModalsShown
    /\ \/ /\ isPaymentModalOpen
          /\ isPaymentModalOpen' = FALSE
          /\ UNCHANGED <<isReceivableModalOpen, isTransactionHistoryOpen>>
       \/ /\ isReceivableModalOpen
          /\ isReceivableModalOpen' = FALSE
          /\ UNCHANGED <<isPaymentModalOpen, isTransactionHistoryOpen>>
       \/ /\ isTransactionHistoryOpen
          /\ isTransactionHistoryOpen' = FALSE
          /\ UNCHANGED <<isPaymentModalOpen, isReceivableModalOpen>>
    /\ cev' = [NoStep EXCEPT !.kind = "close"]
    /\ UNCHANGED <<customers, customersWithCredits, creditsLoading, selectedCustomer,
                   transactions, isAddCustomerOpen, isSyncing, fetching, awaiting,
                   syncAwaits, nextCall>>
    /\ UNCHANGED vars

\* the arguments handleRecordPayment passes to recordManualPayment
PaymentArgs(customerId, amount, method) ==
    [customerId |-> customerId, amount |-> amount, method |-> method]

\* Variant: the receivable is recorded with the amount as entered
ReceivableArgsNotNegated(customerId, amount, reason) ==
    [customerId |-> customerId, amount |-> amount, method |-> "credit", reason |-> reason]

\* the arguments handleRecordReceivable passes to recordManualPayment
ReceivableArgs(customerId, amount, reason) ==
    [customerId |-> customerId, amount |-> Neg(amount), method |-> "credit", reason |-> reason]

\* the payment form is submitted: handleRecordPayment up to its await
handleRecordPayment(amount, method) ==
    /\ ModalsShown
    /\ isPaymentModalOpen
    /\ Await("payment", [customerId |-> selectedCustomer.id, amount |-> amount,
                          method |-> method],
             PaymentArgs(selectedCustomer.id, amount, method))
    /\ UNCHANGED <<customers, customersWithCredits, creditsLoading, selectedCustomer,
                   isPaymentModalOpen, isReceivableModalOpen, isTransactionHistoryOpen,
                   transactions, isAddCustomerOpen, isSyncing, fetching, syncAwaits>>
    /\ UNCHANGED vars

\* the receivable form is submitted: handleRecordReceivable up to its await
handleRecordReceivable(amount, reason) ==
    /\ ModalsShown
    /\ isReceivableModalOpen
    /\ Await("receivable", [customerId |-> selectedCustomer.id, amount |-> amount,
                             reason |-> reason],
             ReceivableArgs(selectedCustomer.id, amount, reason))
    /\ UNCHANGED <<customers, customersWithCredits, creditsLoading, selectedCustomer,
                   isPaymentModalOpen, isReceivableModalOpen, isTransactionHistoryOpen,
                   transactions, isAddCustomerOpen, isSyncing, fetching, syncAwaits>>
    /\ UNCHANGED vars

\* Variant: the handler closes the modal and refreshes whatever the outcome
RecordedAlways(outKind) == TRUE

\* the statements after the await run only when recordManualPayment resolved
Recorded(outKind) == outKind = "ok"

\* handleRecordPayment and handleRecordReceivable from their await to their end
handleRecordResume(a, outKind) ==
    /\ a \in awaiting
    /\ a.kind \in {"payment", "receivable"}
    /\ outKind \in {"ok", "throw"}
    /\ awaiting' = awaiting \ {a}
    /\ IF Recorded(outKind)
       THEN /\ nextCall <= MaxCalls
            /\ fetchAllCustomers(a.kind)
            /\ nextCall' = nextCall + 1
            /\ IF a.kind = "payment"
               THEN isPaymentModalOpen' = FALSE /\ UNCHANGED isReceivableModalOpen
               ELSE isReceivableModalOpen' = FALSE /\ UNCHANGED isPaymentModalOpen
            /\ selectedCustomer' = Null
            /\ cev' = [NoStep EXCEPT !.kind = "recorded", !.id = a.id, !.out = outKind,
                                     !.fetch = nextCall, !.args = a.args]
       ELSE /\ cev' = [NoStep EXCEPT !.kind = "recorded", !.id = a.id, !.out = outKind,
                                     !.args = a.args]
            /\ UNCHANGED <<customers, customersWithCredits, creditsLoading, fetching,
                           nextCall, isPaymentModalOpen, isReceivableModalOpen,
                           selectedCustomer>>
    /\ UNCHANGED <<isTransactionHistoryOpen, transactions, isAddCustomerOpen, isSyncing,
                   syncAwaits>>
    /\ UNCHANGED vars

\* what getTransactionHistory returns
HistoryValues == {<<"t">>}

\* the View History button: handleViewHistory up to its await
handleViewHistory(c) ==
    /\ CreditsShown
    /\ c \in CardsOf(customersWithCredits)
    /\ selectedCustomer' = c
    /\ Await("history", c, [customerId |-> c.id])
    /\ UNCHANGED <<customers, customersWithCredits, creditsLoading, isPaymentModalOpen,
                   isReceivableModalOpen, isTransactionHistoryOpen, transactions,
                   isAddCustomerOpen, isSyncing, fetching, syncAwaits>>
    /\ UNCHANGED vars

\* handleViewHistory from its await to its end
handleViewHistoryResume(a, outKind, history) ==
    /\ a \in awaiting
    /\ a.kind = "history"
    /\ outKind \in {"ok", "throw"}
    /\ history \in HistoryValues
    /\ awaiting' = awaiting \ {a}
    /\ IF outKind = "ok"
       THEN transactions' = history /\ isTransactionHistoryOpen' = TRUE
       ELSE UNCHANGED <<transactions, isTransactionHistoryOpen>>
    /\ cev' = [NoStep EXCEPT !.kind = "historyShown", !.id = a.id, !.out = outKind]
    /\ UNCHANGED <<customers, customersWithCredits, creditsLoading, selectedCustomer,
                   isPaymentModalOpen, isReceivableModalOpen, isAddCustomerOpen, isSyncing,
                   fetching, syncAwaits, nextCall>>
    /\ UNCHANGED vars

\* the Add Customer dialog is opened or closed
setIsAddCustomerOpen(open) ==
    /\ CreditsShown
    /\ open \in BOOLEAN \ {isAddCustomerOpen}
    /\ isAddCustomerOpen' = open
    /\ cev' = [NoStep EXCEPT !.kind = "addDialog"]
    /\ UNCHANGED <<customers, customersWithCredits, creditsLoading, selectedCustomer,
                   isPaymentModalOpen, isReceivableModalOpen, isTransactionHistoryOpen,
                   transactions, isSyncing, fetching, awaiting, syncAwaits, nextCall>>
    /\ UNCHANGED vars

\* the Add Customer form is submitted: handleAddCustomer up to its await
handleAddCustomer ==
    /\ CreditsShown
    /\ isAddCustomerOpen
    /\ Await("create", <<>>, <<>>)
    /\ UNCHANGED <<customers, customersWithCredits, creditsLoading, selectedCustomer,
                   isPaymentModalOpen, isReceivableModalOpen, isTransactionHistoryOpen,
                   transactions, isAddCustomerOpen, isSyncing, fetching, syncAwaits>>
    /\ UNCHANGED vars

\* handleAddCustomer from its await to its end
handleAddCustomerResume(a, outKind) ==
    /\ a \in awaiting
    /\ a.kind = "create"
    /\ outKind \in {"ok", "fail", "throw"}
    /\ awaiting' = awaiting \ {a}
    /\ IF outKind = "ok"
       THEN /\ nextCall <= MaxCalls
            /\ isAddCustomerOpen' = FALSE
            /\ fetchAllCustomers("create")
            /\ nextCall' = nextCall + 1
            /\ cev' = [NoStep EXCEPT !.kind = "created", !.id = a.id, !.out = outKind,
                                     !.toasts = 1, !.fetch = nextCall]
       ELSE /\ cev' = [NoStep EXCEPT !.kind = "created", !.id = a.id, !.out = outKind,
                                     !.toasts = 1]
            /\ UNCHANGED <<customers, customersWithCredits, creditsLoading, fetching,
                           nextCall, isAddCustomerOpen>>
    /\ UNCHANGED <<selectedCustomer, isPaymentModalOpen, isReceivableModalOpen,
                   isTransactionHistoryOpen, transactions, isSyncing, syncAwaits>>
    /\ UNCHANGED vars

\* the Sync Balances button (disabled while syncing): handleSyncBalances up
\* to its first await
handleSyncBalances ==
    /\ CreditsShown
    /\ ~isSyncing
    /\ isSyncing' = TRUE
    /\ Await("sync", <<>>, <<>>)
    /\ UNCHANGED <<customers, customersWithCredits, creditsLoading, selectedCustomer,
                   isPaymentModalOpen, isReceivableModalOpen, isTransactionHistoryOpen,
                   transactions, isAddCustomerOpen, fetching, syncAwaits>>
    /\ UNCHANGED vars

\* Variant: the list is refreshed also when the sync threw
SyncedAlways(outKind) == TRUE

\* await fetchAllCustomers() is reached only when syncAllCustomerBalances resolved
Synced(outKind) == outKind = "ok"

\* handleSyncBalances from its first await: to its second await when the sync
\* resolved, to its end (catch, finally) when the sync threw
handleSyncBalancesResume(a, outKind) ==
    /\ a \in awaiting
    /\ a.kind = "sync"
    /\ outKind \in {"ok", "throw"}
    /\ awaiting' = awaiting \ {a}
    /\ IF Synced(outKind)
       THEN /\ nextCall <= MaxCalls
            /\ fetchAllCustomers("sync")
            /\ nextCall' = nextCall + 1
            /\ syncAwaits' = nextCall
            /\ cev' = [NoStep EXCEPT !.kind = "synced", !.id = a.id, !.out = outKind,
                                     !.fetch = nextCall]
            /\ UNCHANGED isSyncing
       ELSE /\ isSyncing' = FALSE
            /\ cev' = [NoStep EXCEPT !.kind = "synced", !.id = a.id, !.out = outKind]
            /\ UNCHANGED <<customers, customersWithCredits, creditsLoading, fetching,
                           nextCall, syncAwaits>>
    /\ UNCHANGED <<selectedCustomer, isPaymentModalOpen, isReceivableModalOpen,
                   isTransactionHistoryOpen, transactions, isAddCustomerOpen>>
    /\ UNCHANGED vars

\* Variant: there is no finally block
SyncingLeft(was) == was

\* finally: setIsSyncing(false)
SyncingOnEnd(was) == FALSE

\* handleSyncBalances from its second await to its end: the fetchAllCustomers
\* call it awaited has ended (it never rejects)
handleSyncBalancesEnd ==
    /\ syncAwaits # 0
    /\ \A f \in fetching : f.id # syncAwaits
    /\ syncAwaits' = 0
    /\ isSyncing' = SyncingOnEnd(isSyncing)
    /\ cev' = [NoStep EXCEPT !.kind = "syncEnd"]
    /\ UNCHANGED <<customers, customersWithCredits, creditsLoading, selectedCustomer,
                   isPaymentModalOpen, isReceivableModalOpen, isTransactionHistoryOpen,
                   transactions, isAddCustomerOpen, fetching, awaiting, nextCall>>
    /\ UNCHANGED vars

\* after the first render: the mount effect has called fetchAllCustomers
CreditsInit ==
    /\ OrdersUnmounted
    /\ customers = <<>>
    /\ customersWithCredits = <<>>
    /\ creditsLoading = TRUE
    /\ selectedCustomer = Null
    /\ isPaymentModalOpen = FALSE
    /\ isReceivableModalOpen = FALSE
    /\ isTransactionHistoryOpen = FALSE
    /\ transactions = <<>>
    /\ isAddCustomerOpen = FALSE
    /\ isSyncing = FALSE
    /\ fetching = {[id |-> 1, by |-> "mount"]}
    /\ awaiting = {}
    /\ syncAwaits = 0
    /\ nextCall = 2
    /\ cev = [NoStep EXCEPT !.kind = "mount", !.fetch = 1]

CreditsNext ==
    \/ \E f \in fetching : \E out \in FetchOutcomes : fetchAllCustomersResume(f, out)
    \/ \E c \in CardsOf(customersWithCredits) : openPaymentModal(c)
    \/ \E c \in CardsOf(customersWithCredits) : openReceivableModal(c)
    \/ closeModal
    \/ \E amount \in AmountValues : \E method \in MethodValues :
           handleRecordPayment(amount, method)
    \/ \E amount \in AmountValues : \E reason \in ReasonValues :
           handleRecordReceivable(amount, reason)
    \/ \E a \in awaiting : \E outKind \in {"ok", "throw"} : handleRecordResume(a, outKind)
    \/ \E c \in CardsOf(customersWithCredits) : handleViewHistory(c)
    \/ \E a \in awaiting : \E outKind \in {"ok", "throw"} : \E history \in HistoryValues :
           handleViewHistoryResume(a, outKind, history)
    \/ \E open \in BOOLEAN : setIsAddCustomerOpen(open)
    \/ handleAddCustomer
    \/ \E a \in awaiting : \E outKind \in {"ok", "fail", "throw"} :
           handleAddCustomerResume(a, outKind)
    \/ handleSyncBalances
    \/ \E a \in awaiting : \E outKind \in {"ok", "throw"} : handleSyncBalancesResume(a, outKind)
    \/ handleSyncBalancesEnd

allVars == <<vars, creditsVars>>

CreditsSpec == CreditsInit /\ [][CreditsNext]_allVars

-----------------------------------------------------------------------------
(* What the claims about the Credits page speak of *)

\* the customer's balance is a number greater than 0 (a missing one counts as 0)
OwesMoney(c) ==
    /\ "currentBalance" \in DOMAIN c
    /\ c.currentBalance # NaN
    /\ c.currentBalance > 0

\* the fetchAllCustomers calls the last step started
FetchesStarted == fetching' \ fetching

(* C34: in every state of the Credits page customersWithCredits is the       *)
(* sub-list, in the same order, of the customers whose currentBalance        *)
(* (missing counts as 0) is greater than 0, and the two lists change only in *)
(* the step in which a fetchAllCustomers call ends with success.             *)
C34_WithCreditsIsSublistOfCustomers ==
    /\ [](customersWithCredits = SelectSeq(customers, OwesMoney))
    /\ [][(customers' # customers \/ customersWithCredits' # customersWithCredits)
            => (cev'.kind = "fetched" /\ cev'.out = "ok")]_allVars

\* a list with balances positive, zero, negative, missing and not a number
\* was stored: two of its six customers have credit
C34_Witness ==
    /\ cev.kind = "fetched"
    /\ cev.out = "ok"
    /\ Len(customers) = 6
    /\ customersWithCredits = <<CustA, CustE>>

(* C35: a fetchAllCustomers call whose request fails (success:false or a     *)
(* thrown error) leaves customers and customersWithCredits as they were;     *)
(* the error notification is shown when the request throws and only then;    *)
(* whatever the outcome, the call ends with loading = false.                 *)
C35_FetchFailureKeepsLists ==
    [][cev'.kind = "fetched"
        => /\ ~creditsLoading'
           /\ cev'.toasts = (IF cev'.out = "throw" THEN 1 ELSE 0)
           /\ cev'.out \in {"fail", "throw"}
                => UNCHANGED <<customers, customersWithCredits>>]_allVars

\* a request threw after a list had been stored
C35_Witness ==
    /\ cev.kind = "fetched"
    /\ cev.out = "throw"
    /\ cev.toasts = 1
    /\ customersWithCredits # <<>>
    /\ ~creditsLoading

\* a request was answered with success:false after a list had been stored
C35_WitnessFail ==
    /\ cev.kind = "fetched"
    /\ cev.out = "fail"
    /\ cev.toasts = 0
    /\ customersWithCredits # <<>>

(* C36: handleSyncBalances sets isSyncing before it calls                    *)
(* syncAllCustomerBalances (isSyncing is true exactly while the handler      *)
(* runs), refreshes the customer list only once the sync has resolved and    *)
(* never when it threw, and ends with isSyncing = false in either case.      *)

\* handleSyncBalances is suspended at one of its two awaits
SyncRunning == (\E a \in awaiting : a.kind = "sync") \/ syncAwaits # 0

SyncSteps ==
    /\ cev'.kind = "sync"
         => (isSyncing' /\ \E a \in awaiting' \ awaiting : a.kind = "sync")
    /\ \A f \in FetchesStarted :
         f.by = "sync" => (cev'.kind = "synced" /\ cev'.out = "ok")
    /\ (cev'.kind = "synced" /\ cev'.out = "ok")
         => (\E f \in FetchesStarted : f.by = "sync" /\ syncAwaits' = f.id)
    /\ (cev'.kind = "synced" /\ cev'.out = "throw")
         => /\ FetchesStarted = {}
            /\ ~isSyncing'
            /\ UNCHANGED <<customers, customersWithCredits, creditsLoading>>
    /\ cev'.kind = "syncEnd" => ~isSyncing'

C36_SyncRefreshesOnlyOnSuccess ==
    /\ [](isSyncing <=> SyncRunning)
    /\ [][SyncSteps]_allVars

\* the handler ended after the refresh it awaited
C36_Witness ==
    /\ cev.kind = "syncEnd"
    /\ ~isSyncing
    /\ ~creditsLoading
    /\ fetching = {}

\* the sync threw: no refresh, isSyncing false again
C36_WitnessThrow ==
    /\ cev.kind = "synced"
    /\ cev.out = "throw"
    /\ ~isSyncing
    /\ fetching = {}
    /\ customers # <<>>

(* C37: handleRecordPayment and handleRecordReceivable close their modal,    *)
(* clear the selected customer and start a refresh of the customer list in   *)
(* the step in which recordManualPayment resolves, and not before; when it   *)
(* throws, the modal, the selected customer and the list are left alone and  *)
(* no refresh starts; handleRecordReceivable passes the negated amount with  *)
(* method 'credit'.                                                          *)

\* the second number is the first one negated (NaN stays NaN)
Negated(a, b) == IF a = NaN THEN b = NaN ELSE (b # NaN /\ a + b = 0)

RecordSubmitted ==
    cev'.kind \in {"payment", "receivable"}
        => /\ UNCHANGED <<isPaymentModalOpen, isReceivableModalOpen, selectedCustomer,
                          fetching, creditsLoading>>
           /\ \E a \in awaiting' \ awaiting : a.kind = cev'.kind /\ a.args = cev'.args
           /\ cev'.args.customerId = cev'.input.customerId
           /\ cev'.kind = "payment"
                => /\ cev'.args.amount = cev'.input.amount
                   /\ cev'.args.method = cev'.input.method
           /\ cev'.kind = "receivable"
                => /\ Negated(cev'.input.amount, cev'.args.amount)
                   /\ cev'.args.method = "credit"

RecordResolved ==
    (cev'.kind = "recorded" /\ cev'.out = "ok")
        => /\ selectedCustomer' = Null
           /\ \E f \in FetchesStarted : f.id = cev'.fetch
           /\ "reason" \in DOMAIN cev'.args
                => ~isReceivableModalOpen' /\ UNCHANGED isPaymentModalOpen
           /\ "reason" \notin DOMAIN cev'.args
                => ~isPaymentModalOpen' /\ UNCHANGED isReceivableModalOpen

RecordThrew ==
    (cev'.kind = "recorded" /\ cev'.out = "throw")
        => /\ UNCHANGED <<isPaymentModalOpen, isReceivableModalOpen, selectedCustomer,
                          fetching, creditsLoading, customers, customersWithCredits>>
           /\ cev'.toasts = 0

RefreshOnlyWhenRecorded ==
    \A f \in FetchesStarted :
        f.by \in {"payment", "receivable"} => (cev'.kind = "recorded" /\ cev'.out = "ok")

C37_RecordClosesOnlyOnSuccess ==
    [][RecordSubmitted /\ RecordResolved /\ RecordThrew /\ RefreshOnlyWhenRecorded]_allVars

\* a receivable of 5 was recorded as -5 with method 'credit': its modal is
\* closed, no customer is selected and the refresh is in flight
C37_Witness ==
    /\ cev.kind = "recorded"
    /\ cev.out = "ok"
    /\ cev.args.method = "credit"
    /\ cev.args.amount = 0 - 5
    /\ selectedCustomer = Null
    /\ ~isReceivableModalOpen
    /\ \E f \in fetching : f.by = "receivable"

\* recordManualPayment threw: the payment modal is still open on its customer
C37_WitnessThrow ==
    /\ cev.kind = "recorded"
    /\ cev.out = "throw"
    /\ isPaymentModalOpen
    /\ selectedCustomer # Null
    /\ selectedCustomer.id = cev.args.customerId
    /\ fetching = {}

=============================================================================
